---- MODULE Spec2Model ----
(***************************************************************************)
(* AkkuChat signalling server (server.js): the activeUsers registry, the   *)
(* Socket.IO room subscriptions of every socket, and one action per        *)
(* socket event handler.  Every handler runs to completion on the single   *)
(* Node.js event loop, so one handler is one atomic step.                  *)
(*                                                                         *)
(* Socket.IO semantics the handlers rely on:                               *)
(*   - every connected socket is a member of the room named by its own id; *)
(*   - socket.join(r) adds the socket to room r and never leaves another;  *)
(*   - socket.emit(..)       delivers to that socket only;                 *)
(*   - socket.to(r).emit(..) delivers to the members of room r except the  *)
(*                           socket itself;                                *)
(*   - io.to(r).emit(..)     delivers to all members of room r;            *)
(*   - a socket has left all its rooms when its 'disconnect' handler runs. *)
(* Room names and socket ids are plain strings in one namespace.           *)
(***************************************************************************)
EXTENDS Naturals, Sequences, FiniteSets

\* ------------------------------------------------------------------ inputs

\* Socket ids of the connections the model follows.
Conns == {"s1", "s2", "s3"}

\* Display names a client may send.
Names == {"alice", "bob"}

\* Room ids a client may send.
RoomIds == {"R1", "R2"}

\* Room ids a client may send, one of them the socket id of a connection:
\* roomId is a free-form client string, and room-users-list tells every
\* member of a room the socket ids of the others.
SocketRoomIds == {"R1", "s2"}

\* A field the client left out of the payload (undefined in JavaScript).
Missing == "<missing>"

\* Call types a client may send with call-user.
CallTypes == {"audio", "video"}

\* Texts of send-message as sequences of characters; " " is whitespace.
MissingText == <<"<missing>">>
Texts == { <<>>, <<" ">>, <<"h", "i">>, <<" ", "h", " ", "i", " ">>, MissingText }

\* Image urls of send-image.
ImageUrls == {"/uploads/1.png", "", Missing}

\* Payloads of webrtc-offer, webrtc-answer and webrtc-ice-candidate.
Payloads == {"sdp1", "sdp2"}

\* The largest number of calls in progress the model follows at a time.
MaxCalls == 1

\* The number of relayed messages and images whose delivery the model follows.
MaxLog == 2

\* activeUsers[id] of a socket that has no entry.
NoUser == [username |-> "", roomId |-> ""]

\* seen[id] of a socket that received no room-users-list yet.
NoList == [known |-> FALSE, users |-> {}]

\* answers[id] of a socket that sent no get-room-users yet.
NoAnswer == [asked |-> FALSE, lists |-> {}]

\* The number of buttons (call, accept, reject, end, leave) the users press
\* once they are in the room, failures of a peer connection included.
MaxActs == 3

\* currentCall.targetSocketId of a client that is in no call (null).
NoTarget == "<null>"

\* script.js currentCall before any call and after endCall() or rejectCall().
NoCall == [targetSocketId |-> NoTarget, isIncoming |-> FALSE]

VARIABLES
  connected,    \* socket ids of the open connections
  closed,       \* socket ids whose connection has ended (ids are never reused)
  activeUsers,  \* server.js activeUsers: socket id -> {username, roomId}
  rooms,        \* Socket.IO adapter: socket id -> rooms joined with socket.join
  calls,        \* history: the calls in progress, [caller, callee, state]
  last,         \* the event the last handler processed ("idle" between handlers)
  out,          \* the emissions of the last handler, in order
  prevUsers,    \* activeUsers before the last handler
  prevCalls,    \* calls before the last handler
  answers,      \* history: socket id -> the answer to its last get-room-users
  sent,         \* history: the number of messages and images relayed so far
  inbox,        \* history: socket id -> the relayed messages it received, in order
  seen,         \* history: socket id -> the last room-users-list it received
  toServer,     \* socket id -> the packets its client sent, oldest first
  toClient,     \* socket id -> the packets the server sent to it, oldest first
  screen,       \* script.js: "join", "asked" (join-room sent), "chat" or "left"
  roomUsers,    \* script.js roomUsers: the list the client stored last
  currentCall,  \* script.js currentCall: {targetSocketId, isIncoming}
  incomingCallModal, \* script.js: the accept / reject dialog is shown
  callInterface,     \* script.js: the call interface with the end button is shown
  acts,         \* the number of buttons pressed in the room so far
  hungUp,       \* history: socket id -> the peers whose call its user ended or rejected
  leftInCall,   \* history: socket id -> currentCall.targetSocketId when it left the room
  handled       \* history: socket id -> the packet of it the server handled last

\* The histories, which a handler leaves alone: they are written when it returns.
history == <<answers, sent, inbox, seen>>

\* The page of every client and the packets between the pages and the server.
client == <<toServer, toClient, screen, roomUsers, currentCall, incomingCallModal,
            callInterface, acts, hungUp, leftInCall, handled>>

vars == <<connected, closed, activeUsers, rooms, calls, last, out, prevUsers, prevCalls,
          answers, sent, inbox, seen,
          toServer, toClient, screen, roomUsers, currentCall, incomingCallModal,
          callInterface, acts, hungUp, leftInCall, handled>>

\* ------------------------------------------------------------------ helpers

\* !x that takes a field the client left out for a value.
Falsy_EmptyOnly(x) == x = ""

\* JavaScript !x for the string fields of a payload.
Falsy(x) == x = "" \/ x = Missing

\* activeUsers[id] is undefined.
Unregistered(users, id) == id \notin Conns \/ users[id] = NoUser

\* A trim that takes no character for whitespace.
IsSpace_Never(ch) == FALSE

\* The characters String.prototype.trim removes.
IsSpace(ch) == ch = " "

RECURSIVE TrimStart(_)
TrimStart(s) ==
  IF s = <<>> THEN <<>>
  ELSE IF IsSpace(Head(s)) THEN TrimStart(Tail(s)) ELSE s

RECURSIVE TrimEnd(_)
TrimEnd(s) ==
  IF s = <<>> THEN <<>>
  ELSE IF IsSpace(s[Len(s)]) THEN TrimEnd(SubSeq(s, 1, Len(s) - 1)) ELSE s

\* Trim with the trailing whitespace left in place.
Trim_StartOnly(s) == TrimStart(s)

\* String.prototype.trim
Trim(s) == TrimEnd(TrimStart(s))

\* Members of Socket.IO room r: the socket whose id is r, and the sockets
\* that called socket.join(r).
InRoom(conn, rms, r) == {c \in conn : c = r \/ r \in rms[c]}

\* socket.emit(ev, data) on socket c
ToSelf(c, ev, data) == [event |-> ev, to |-> {c}, data |-> data]

\* socket.to(r).emit written as io.to(r).emit: the sender is not left out.
ToOthers_WithSender(conn, rms, c, r, ev, data) ==
  [event |-> ev, to |-> InRoom(conn, rms, r), data |-> data]

\* socket.to(r).emit(ev, data) on socket c
ToOthers(conn, rms, c, r, ev, data) ==
  [event |-> ev, to |-> InRoom(conn, rms, r) \ {c}, data |-> data]

\* io.to(r).emit(ev, data)
ToRoom(conn, rms, r, ev, data) ==
  [event |-> ev, to |-> InRoom(conn, rms, r), data |-> data]

\* roomUsers without the test that leaves the asking socket out.
RoomUsers_WithSelf(users, r, excl) ==
  {[socketId |-> sid, username |-> users[sid].username] :
     sid \in {s \in Conns : users[s] # NoUser /\ users[s].roomId = r}}

\* roomUsers without the test of the room id.
RoomUsers_AnyRoom(users, r, excl) ==
  {[socketId |-> sid, username |-> users[sid].username] :
     sid \in {s \in Conns : users[s] # NoUser /\ s \notin excl}}

\* The roomUsers array the handlers build from activeUsers (as a set: the
\* order of Object.keys is not modelled).
RoomUsers(users, r, excl) ==
  {[socketId |-> sid, username |-> users[sid].username] :
     sid \in {s \in Conns : users[s] # NoUser /\ users[s].roomId = r /\ s \notin excl}}

\* The target test of call-user without the comparison of the rooms.
TargetInRoom_AnyRoom(users, c, t) == ~Unregistered(users, t)

\* call-user: the target is registered, in the room of caller c.
TargetInRoom(users, c, t) ==
  ~Unregistered(users, t) /\ users[t].roomId = users[c].roomId

Event(ev, c, data) == [event |-> ev, from |-> c, data |-> data]

NoData == [none |-> TRUE]

\* handled[id] of a socket the server handled no packet of yet.
NoPacket == [event |-> "", data |-> NoData, registered |-> FALSE, to |-> {}]

\* The event loop is between two handlers.
IdleEvent == Event("idle", "", NoData)

\* ------------------------------------------------------------------ calls
\* The server keeps no call state.  calls follows the Call Session of the
\* design (IDLE -> RINGING -> ACCEPTED -> ENDED) from the events the server
\* handles, so that properties about calls in progress can be stated.

CallRec(a, b, st) == [caller |-> a, callee |-> b, state |-> st]

CallsOf(cs, a, b) == {k \in cs : k.caller = a /\ k.callee = b}

\* a's call-user reached b and was not yet accepted, rejected or ended.
Ringing(cs, a, b) == CallRec(a, b, "ringing") \in cs

\* A call, ringing or accepted, exists between a and b.
InCall(cs, a, b) == CallsOf(cs, a, b) \cup CallsOf(cs, b, a) # {}

StartRinging(cs, a, b) == (cs \ CallsOf(cs, a, b)) \cup {CallRec(a, b, "ringing")}

AcceptRinging(cs, a, b) ==
  IF Ringing(cs, a, b)
  THEN (cs \ CallsOf(cs, a, b)) \cup {CallRec(a, b, "accepted")}
  ELSE cs

DiscardCall(cs, a, b) == cs \ CallsOf(cs, a, b)

EndBetween(cs, a, b) == cs \ (CallsOf(cs, a, b) \cup CallsOf(cs, b, a))

DropCallsOf(cs, c) == {k \in cs : k.caller # c /\ k.callee # c}

\* ------------------------------------------------------------------ actions

Init ==
  /\ connected = {}
  /\ closed = {}
  /\ activeUsers = [c \in Conns |-> NoUser]
  /\ rooms = [c \in Conns |-> {}]
  /\ calls = {}
  /\ last = IdleEvent
  /\ out = <<>>
  /\ prevUsers = [c \in Conns |-> NoUser]
  /\ prevCalls = {}
  /\ answers = [c \in Conns |-> NoAnswer]
  /\ sent = 0
  /\ inbox = [c \in Conns |-> <<>>]
  /\ seen = [c \in Conns |-> NoList]
  /\ toServer = [c \in Conns |-> <<>>]
  /\ toClient = [c \in Conns |-> <<>>]
  /\ screen = [c \in Conns |-> "join"]
  /\ roomUsers = [c \in Conns |-> {}]
  /\ currentCall = [c \in Conns |-> NoCall]
  /\ incomingCallModal = [c \in Conns |-> FALSE]
  /\ callInterface = [c \in Conns |-> FALSE]
  /\ acts = 0
  /\ hungUp = [c \in Conns |-> {}]
  /\ leftInCall = [c \in Conns |-> NoTarget]
  /\ handled = [c \in Conns |-> NoPacket]

\* A handler starts only when the previous one has returned.
Idle == last = IdleEvent

\* What every handler records: the event, and the state it started from.
Handles(ev, c, data) ==
  /\ Idle
  /\ last' = Event(ev, c, data)
  /\ prevUsers' = activeUsers
  /\ prevCalls' = calls
  /\ UNCHANGED <<history, client>>

\* The handler returns: its emissions are on the wire and the event loop
\* waits for the next event.
Returns ==
  /\ ~Idle
  /\ last' = IdleEvent
  /\ out' = <<>>
  /\ prevUsers' = activeUsers
  /\ prevCalls' = calls
  /\ UNCHANGED <<connected, closed, activeUsers, rooms, calls>>

\* The handler returns and no history is kept.
Return == Returns /\ UNCHANGED <<history, client>>

\* The room-users-list a get-room-users was answered with, as the set of
\* lists emitted: empty when the handler emitted none.
Answer(o) == {o[i].data.users : i \in {k \in 1..Len(o) : o[k].event = "room-users-list"}}

\* The handler returns, and the history keeps the answer of a
\* get-room-users until the next join-room or disconnect is handled.
ReturnAnswers ==
  /\ Returns
  /\ answers' = IF last.event = "get-room-users"
                 THEN [answers EXCEPT ![last.from] = [asked |-> TRUE, lists |-> Answer(out)]]
                 ELSE IF last.event \in {"join-room", "disconnect"}
                 THEN [c \in Conns |-> NoAnswer]
                 ELSE answers
  /\ UNCHANGED <<sent, inbox, seen, client>>

\* The connections a relayed message or image of the last handler went to.
RelayedTo(o) ==
  UNION {o[i].to : i \in {k \in 1..Len(o) : o[k].event \in {"receive-message", "receive-image"}}}

\* Socket.IO hands the packets of one socket to its client in the order of
\* the emit calls, with the packet put at the head of the queue instead.
Deliver_Front(q, m) == <<m>> \o q

\* Socket.IO hands the packets of one socket to its client in the order of
\* the emit calls.
Deliver(q, m) == Append(q, m)

\* The handler returns, and the history numbers the messages and images in
\* the order the server relayed them and keeps what every socket received,
\* for the first MaxLog of them.
ReturnInbox ==
  /\ Returns
  /\ IF RelayedTo(out) # {} /\ sent < MaxLog
     THEN /\ sent' = sent + 1
          /\ inbox' = [c \in Conns |->
                         IF c \in RelayedTo(out)
                         THEN Deliver(inbox[c], [n |-> sent + 1, from |-> last.from])
                         ELSE inbox[c]]
     ELSE /\ sent' = sent
          /\ inbox' = IF last.event = "disconnect"
                       THEN [inbox EXCEPT ![last.from] = <<>>]
                       ELSE inbox
  /\ UNCHANGED <<answers, seen, client>>

\* The emissions of room-users-list among o that socket c received.
ListsTo(o, c) == {k \in 1..Len(o) : o[k].event = "room-users-list" /\ c \in o[k].to}

\* The largest of a set of indices that is not empty.
LastOf(ks) == CHOOSE k \in ks : \A j \in ks : j <= k

\* The handler returns, and the history keeps for every socket the last
\* room-users-list it received, until the socket disconnects.
ReturnSeen ==
  /\ Returns
  /\ seen' = [c \in Conns |->
                IF last.event = "disconnect" /\ c = last.from THEN NoList
                ELSE IF ListsTo(out, c) # {}
                THEN [known |-> TRUE, users |-> out[LastOf(ListsTo(out, c))].data.users]
                ELSE seen[c]]
  /\ UNCHANGED <<answers, sent, inbox, client>>

\* io.on('connection'): a new socket, member of the room named by its id.
Connect(c) ==
  /\ c \notin connected /\ c \notin closed
  /\ Handles("connection", c, NoData)
  /\ connected' = connected \cup {c}
  /\ out' = <<>>
  /\ UNCHANGED <<closed, activeUsers, rooms, calls>>

\* The join-room handler that keeps the entry a socket already has.
JoinRoom_KeepFirst(c, username, roomId) ==
  /\ c \in connected
  /\ Handles("join-room", c, [username |-> username, roomId |-> roomId])
  /\ IF Falsy(username) \/ Falsy(roomId)
     THEN /\ out' = << ToSelf(c, "join-error", [message |-> "required"]) >>
          /\ UNCHANGED <<activeUsers, rooms>>
     ELSE /\ activeUsers' = IF Unregistered(activeUsers, c)
                            THEN [activeUsers EXCEPT ![c] = [username |-> username, roomId |-> roomId]]
                            ELSE activeUsers
          /\ rooms' = [rooms EXCEPT ![c] = @ \cup {roomId}]
          /\ out' = << ToSelf(c, "joined-room", [username |-> username, roomId |-> roomId]),
                       ToOthers(connected, rooms', c, roomId, "user-joined", [username |-> username]),
                       ToRoom(connected, rooms', roomId, "room-users-list",
                              [users |-> RoomUsers(activeUsers', roomId, {})]) >>
  /\ UNCHANGED <<connected, closed, calls>>

\* The join-room handler that first tells the room of the previous Session
\* that the user left.
JoinRoom_LeaveNotice(c, username, roomId) ==
  /\ c \in connected
  /\ Handles("join-room", c, [username |-> username, roomId |-> roomId])
  /\ IF Falsy(username) \/ Falsy(roomId)
     THEN /\ out' = << ToSelf(c, "join-error", [message |-> "required"]) >>
          /\ UNCHANGED <<activeUsers, rooms>>
     ELSE /\ activeUsers' = [activeUsers EXCEPT ![c] = [username |-> username, roomId |-> roomId]]
          /\ rooms' = [rooms EXCEPT ![c] = @ \cup {roomId}]
          /\ out' = (IF Unregistered(activeUsers, c) \/ activeUsers[c].roomId = roomId
                     THEN <<>>
                     ELSE << ToOthers(connected, rooms, c, activeUsers[c].roomId, "user-left",
                                      [username |-> activeUsers[c].username]) >>)
                    \o
                    << ToSelf(c, "joined-room", [username |-> username, roomId |-> roomId]),
                       ToOthers(connected, rooms', c, roomId, "user-joined", [username |-> username]),
                       ToRoom(connected, rooms', roomId, "room-users-list",
                              [users |-> RoomUsers(activeUsers', roomId, {})]) >>
  /\ UNCHANGED <<connected, closed, calls>>

\* socket.on('join-room')
JoinRoom(c, username, roomId) ==
  /\ c \in connected
  /\ Handles("join-room", c, [username |-> username, roomId |-> roomId])
  /\ IF Falsy(username) \/ Falsy(roomId)
     THEN /\ out' = << ToSelf(c, "join-error", [message |-> "required"]) >>
          /\ UNCHANGED <<activeUsers, rooms>>
     ELSE /\ activeUsers' = [activeUsers EXCEPT ![c] = [username |-> username, roomId |-> roomId]]
          /\ rooms' = [rooms EXCEPT ![c] = @ \cup {roomId}]
          /\ out' = << ToSelf(c, "joined-room", [username |-> username, roomId |-> roomId]),
                       ToOthers(connected, rooms', c, roomId, "user-joined", [username |-> username]),
                       ToRoom(connected, rooms', roomId, "room-users-list",
                              [users |-> RoomUsers(activeUsers', roomId, {})]) >>
  /\ UNCHANGED <<connected, closed, calls>>

\* socket.on('send-message').  The timestamp of the message is the wall
\* clock of the server and is left out of the payload here.
SendMessage(c, message) ==
  /\ c \in connected
  /\ Handles("send-message", c, [message |-> message])
  /\ out' = IF Unregistered(activeUsers, c)
            THEN << ToSelf(c, "error", [message |-> "join first"]) >>
            ELSE IF message = MissingText \/ message = <<>> \/ Trim(message) = <<>>
            THEN <<>>
            ELSE << ToRoom(connected, rooms, activeUsers[c].roomId, "receive-message",
                           [username |-> activeUsers[c].username, message |-> Trim(message)]) >>
  /\ UNCHANGED <<connected, closed, activeUsers, rooms, calls>>

\* socket.on('send-image')
SendImage(c, imageUrl) ==
  /\ c \in connected
  /\ Handles("send-image", c, [imageUrl |-> imageUrl])
  /\ out' = IF Unregistered(activeUsers, c)
            THEN << ToSelf(c, "error", [message |-> "join first"]) >>
            ELSE IF Falsy(imageUrl)
            THEN <<>>
            ELSE << ToRoom(connected, rooms, activeUsers[c].roomId, "receive-image",
                           [username |-> activeUsers[c].username, imageUrl |-> imageUrl]) >>
  /\ UNCHANGED <<connected, closed, activeUsers, rooms, calls>>

\* The get-room-users handler that lists the open sockets, not the entries
\* of activeUsers for the room.
GetRoomUsers_OpenSockets(c) ==
  /\ c \in connected
  /\ Handles("get-room-users", c, NoData)
  /\ out' = IF Unregistered(activeUsers, c)
            THEN <<>>
            ELSE << ToSelf(c, "room-users-list",
                           [users |-> {[socketId |-> s, username |-> activeUsers[s].username] :
                                         s \in connected \ {c}}]) >>
  /\ UNCHANGED <<connected, closed, activeUsers, rooms, calls>>

\* socket.on('get-room-users')
GetRoomUsers(c) ==
  /\ c \in connected
  /\ Handles("get-room-users", c, NoData)
  /\ out' = IF Unregistered(activeUsers, c)
            THEN <<>>
            ELSE << ToSelf(c, "room-users-list",
                           [users |-> RoomUsers(activeUsers, activeUsers[c].roomId, {c})]) >>
  /\ UNCHANGED <<connected, closed, activeUsers, rooms, calls>>

\* socket.on('call-user')
CallUser(c, targetSocketId, callType) ==
  /\ c \in connected
  /\ Handles("call-user", c, [targetSocketId |-> targetSocketId, callType |-> callType])
  /\ out' = IF Unregistered(activeUsers, c)
            THEN <<>>
            ELSE IF ~TargetInRoom(activeUsers, c, targetSocketId)
            THEN << ToSelf(c, "call-error", [message |-> "not found"]) >>
            ELSE << ToOthers(connected, rooms, c, targetSocketId, "incoming-call",
                             [callerSocketId |-> c,
                              callerUsername |-> activeUsers[c].username,
                              callType |-> callType]) >>
  /\ calls' = IF \E i \in 1..Len(out') :
                   out'[i].event = "incoming-call" /\ targetSocketId \in out'[i].to
              THEN StartRinging(calls, c, targetSocketId)
              ELSE calls
  /\ Cardinality(calls') <= MaxCalls
  /\ UNCHANGED <<connected, closed, activeUsers, rooms>>

\* socket.on('accept-call')
AcceptCall(c, callerSocketId) ==
  /\ c \in connected
  /\ Handles("accept-call", c, [callerSocketId |-> callerSocketId])
  /\ IF Unregistered(activeUsers, c) \/ Unregistered(activeUsers, callerSocketId)
     THEN /\ out' = <<>>
          /\ calls' = calls
     ELSE /\ out' = << ToOthers(connected, rooms, c, callerSocketId, "call-accepted",
                                [answererSocketId |-> c,
                                 answererUsername |-> activeUsers[c].username]) >>
          /\ calls' = AcceptRinging(calls, callerSocketId, c)
  /\ UNCHANGED <<connected, closed, activeUsers, rooms>>

\* socket.on('reject-call')
RejectCall(c, callerSocketId) ==
  /\ c \in connected
  /\ Handles("reject-call", c, [callerSocketId |-> callerSocketId])
  /\ IF Unregistered(activeUsers, c) \/ Unregistered(activeUsers, callerSocketId)
     THEN /\ out' = <<>>
          /\ calls' = calls
     ELSE /\ out' = << ToOthers(connected, rooms, c, callerSocketId, "call-rejected",
                                [answererSocketId |-> c,
                                 answererUsername |-> activeUsers[c].username]) >>
          /\ calls' = DiscardCall(calls, callerSocketId, c)
  /\ UNCHANGED <<connected, closed, activeUsers, rooms>>

\* socket.on('end-call')
EndCall(c, targetSocketId) ==
  /\ c \in connected
  /\ Handles("end-call", c, [targetSocketId |-> targetSocketId])
  /\ IF Unregistered(activeUsers, c)
     THEN /\ out' = <<>>
          /\ calls' = calls
     ELSE /\ out' = << ToOthers(connected, rooms, c, targetSocketId, "call-ended",
                                [fromSocketId |-> c,
                                 fromUsername |-> activeUsers[c].username]) >>
          /\ calls' = EndBetween(calls, c, targetSocketId)
  /\ UNCHANGED <<connected, closed, activeUsers, rooms>>

\* socket.on('webrtc-offer'), socket.on('webrtc-answer') and
\* socket.on('webrtc-ice-candidate'): the same relay under three event names.
Relay(ev, c, targetSocketId, payload) ==
  /\ c \in connected
  /\ Handles(ev, c, [targetSocketId |-> targetSocketId, payload |-> payload])
  /\ out' = << ToOthers(connected, rooms, c, targetSocketId, ev,
                        [fromSocketId |-> c, payload |-> payload]) >>
  /\ UNCHANGED <<connected, closed, activeUsers, rooms, calls>>

WebrtcOffer(c, targetSocketId, offer) == Relay("webrtc-offer", c, targetSocketId, offer)

WebrtcAnswer(c, targetSocketId, answer) == Relay("webrtc-answer", c, targetSocketId, answer)

WebrtcIceCandidate(c, targetSocketId, candidate) ==
  Relay("webrtc-ice-candidate", c, targetSocketId, candidate)

\* The disconnect handler that deletes the entries of the whole room.
Disconnect_ClearsRoom(c) ==
  /\ c \in connected
  /\ Handles("disconnect", c, NoData)
  /\ connected' = connected \ {c}
  /\ closed' = closed \cup {c}
  /\ rooms' = [rooms EXCEPT ![c] = {}]
  /\ activeUsers' = [s \in Conns |->
                       IF activeUsers[s].roomId = activeUsers[c].roomId
                       THEN NoUser ELSE activeUsers[s]]
  /\ out' = IF Unregistered(activeUsers, c)
            THEN <<>>
            ELSE << ToOthers(connected', rooms', c, activeUsers[c].roomId, "user-left",
                             [username |-> activeUsers[c].username]),
                    ToRoom(connected', rooms', activeUsers[c].roomId, "room-users-list",
                           [users |-> RoomUsers(activeUsers', activeUsers[c].roomId, {})]) >>
  /\ calls' = DropCallsOf(calls, c)

\* The disconnect handler without the test of the entry: it announces the
\* socket to every room.
Disconnect_NoSessionTest(c) ==
  /\ c \in connected
  /\ Handles("disconnect", c, NoData)
  /\ connected' = connected \ {c}
  /\ closed' = closed \cup {c}
  /\ rooms' = [rooms EXCEPT ![c] = {}]
  /\ activeUsers' = [activeUsers EXCEPT ![c] = NoUser]
  /\ out' = << [event |-> "user-left", to |-> connected',
                data |-> [username |-> activeUsers[c].username]],
               ToRoom(connected', rooms', activeUsers[c].roomId, "room-users-list",
                      [users |-> RoomUsers(activeUsers', activeUsers[c].roomId, {})]) >>
  /\ calls' = DropCallsOf(calls, c)

\* The disconnect handler without delete activeUsers[socket.id].
Disconnect_KeepsEntry(c) ==
  /\ c \in connected
  /\ Handles("disconnect", c, NoData)
  /\ connected' = connected \ {c}
  /\ closed' = closed \cup {c}
  /\ rooms' = [rooms EXCEPT ![c] = {}]
  /\ activeUsers' = activeUsers
  /\ out' = IF Unregistered(activeUsers, c)
            THEN <<>>
            ELSE << ToOthers(connected', rooms', c, activeUsers[c].roomId, "user-left",
                             [username |-> activeUsers[c].username]),
                    ToRoom(connected', rooms', activeUsers[c].roomId, "room-users-list",
                           [users |-> RoomUsers(activeUsers', activeUsers[c].roomId, {})]) >>
  /\ calls' = DropCallsOf(calls, c)

\* The disconnect handler with the list built before the entry is deleted.
Disconnect_ListBeforeDelete(c) ==
  /\ c \in connected
  /\ Handles("disconnect", c, NoData)
  /\ connected' = connected \ {c}
  /\ closed' = closed \cup {c}
  /\ rooms' = [rooms EXCEPT ![c] = {}]
  /\ activeUsers' = [activeUsers EXCEPT ![c] = NoUser]
  /\ out' = IF Unregistered(activeUsers, c)
            THEN <<>>
            ELSE << ToOthers(connected', rooms', c, activeUsers[c].roomId, "user-left",
                             [username |-> activeUsers[c].username]),
                    ToRoom(connected', rooms', activeUsers[c].roomId, "room-users-list",
                           [users |-> RoomUsers(activeUsers, activeUsers[c].roomId, {})]) >>
  /\ calls' = DropCallsOf(calls, c)

\* socket.on('disconnect'): the socket has left its rooms when the handler runs.
Disconnect(c) ==
  /\ c \in connected
  /\ Handles("disconnect", c, NoData)
  /\ connected' = connected \ {c}
  /\ closed' = closed \cup {c}
  /\ rooms' = [rooms EXCEPT ![c] = {}]
  /\ activeUsers' = [activeUsers EXCEPT ![c] = NoUser]
  /\ out' = IF Unregistered(activeUsers, c)
            THEN <<>>
            ELSE << ToOthers(connected', rooms', c, activeUsers[c].roomId, "user-left",
                             [username |-> activeUsers[c].username]),
                    ToRoom(connected', rooms', activeUsers[c].roomId, "room-users-list",
                           [users |-> RoomUsers(activeUsers', activeUsers[c].roomId, {})]) >>
  /\ calls' = DropCallsOf(calls, c)

\* ------------------------------------------------------------------ specifications

JoinInputs == Names \cup {"", Missing}

\* Connection, join and disconnect, the handlers that change the registry,
\* with the room ids of join-room drawn from roomIds.
Joins(roomIds) ==
  \/ \E c \in Conns : Connect(c)
  \/ \E c \in Conns, n \in JoinInputs, r \in roomIds \cup {"", Missing} : JoinRoom(c, n, r)
  \/ \E c \in Conns : Disconnect(c)

Presence(roomIds) == Return \/ Joins(roomIds)

\* The message relay and the membership query.
Chat ==
  \/ \E c \in Conns, m \in Texts : SendMessage(c, m)
  \/ \E c \in Conns, u \in ImageUrls : SendImage(c, u)
  \/ \E c \in Conns : GetRoomUsers(c)

\* Call signalling.
Calling ==
  \/ \E c \in Conns, t \in Conns, k \in CallTypes : CallUser(c, t, k)
  \/ \E c \in Conns, t \in Conns : AcceptCall(c, t)
  \/ \E c \in Conns, t \in Conns : RejectCall(c, t)
  \/ \E c \in Conns, t \in Conns : EndCall(c, t)

\* The relay of session-negotiation payloads.
Negotiation ==
  \/ \E c \in Conns, t \in Conns, p \in Payloads : WebrtcOffer(c, t, p)
  \/ \E c \in Conns, t \in Conns, p \in Payloads : WebrtcAnswer(c, t, p)
  \/ \E c \in Conns, t \in Conns, p \in Payloads : WebrtcIceCandidate(c, t, p)

Next == Presence(RoomIds \cup SocketRoomIds) \/ Chat \/ Calling \/ Negotiation

Spec == Init /\ [][Next]_vars

\* Only join-room and disconnect change activeUsers and the rooms, and every
\* handler overwrites last and out: the states a group of handlers reaches
\* are the same with and without the handlers of the other groups.

\* The room broadcasts, over two ordinary rooms.
NextChat == Presence(RoomIds) \/ Chat

SpecChat == Init /\ [][NextChat]_vars

\* The call handlers address a socket through the room named by its id, so
\* their specifications draw the room ids from SocketRoomIds.
NextCall == Presence(SocketRoomIds) \/ Calling

SpecCall == Init /\ [][NextCall]_vars

NextRelay == Presence(SocketRoomIds) \/ Negotiation

SpecRelay == Init /\ [][NextRelay]_vars

\* Call signalling and the relay together, over two ordinary rooms.
NextNegotiate == Presence(RoomIds) \/ Calling \/ Negotiation

SpecNegotiate == Init /\ [][NextNegotiate]_vars

\* Every handler of the server, with one value for each field that no
\* handler stores: one text, one url, one call type and one payload.
NextAll ==
  \/ Return
  \/ \E c \in Conns : Connect(c)
  \/ \E c \in Conns, n \in {"alice", Missing}, r \in RoomIds : JoinRoom(c, n, r)
  \/ \E c \in Conns : Disconnect(c)
  \/ \E c \in Conns : SendMessage(c, <<"h", "i">>)
  \/ \E c \in Conns : SendImage(c, "/uploads/1.png")
  \/ \E c \in Conns : GetRoomUsers(c)
  \/ \E c \in Conns, t \in Conns : CallUser(c, t, "audio")
  \/ \E c \in Conns, t \in Conns : AcceptCall(c, t)
  \/ \E c \in Conns, t \in Conns : RejectCall(c, t)
  \/ \E c \in Conns, t \in Conns : EndCall(c, t)
  \/ \E c \in Conns, t \in Conns : WebrtcOffer(c, t, "sdp1")
  \/ \E c \in Conns, t \in Conns : WebrtcAnswer(c, t, "sdp1")
  \/ \E c \in Conns, t \in Conns : WebrtcIceCandidate(c, t, "sdp1")

SpecAll == Init /\ [][NextAll]_vars

\* The membership query, with the history of its answers.
NextQuery == ReturnAnswers \/ Joins(RoomIds) \/ Chat

SpecQuery == Init /\ [][NextQuery]_vars

\* The relay of messages and images, with the history of what was received.
\* The order of delivery does not depend on the names and on the contents:
\* one name, one text and one url are sent.
NextOrder ==
  \/ ReturnInbox
  \/ \E c \in Conns : Connect(c)
  \/ \E c \in Conns, r \in RoomIds : JoinRoom(c, "alice", r)
  \/ \E c \in Conns : Disconnect(c)
  \/ \E c \in Conns : SendMessage(c, <<"h", "i">>)
  \/ \E c \in Conns : SendImage(c, "/uploads/1.png")

SpecOrder == Init /\ [][NextOrder]_vars

\* The handlers that emit room-users-list, with the history of the list
\* every socket received last.
NextLists ==
  \/ ReturnSeen
  \/ Joins(RoomIds)
  \/ \E c \in Conns : GetRoomUsers(c)

SpecLists == Init /\ [][NextLists]_vars

\* ------------------------------------------------------------------ the client page (script.js)

\* The page of a connection is the script.js of one browser tab, as long as
\* its socket is open.  A page handles one packet or one click at a time, and
\* Socket.IO carries the packets of one socket in the order they were sent,
\* in both directions.  Of the WebRTC negotiation only its failures touch
\* currentCall, through endCall(); its packets are left out.  Every page
\* joins once, under one name, into one room.  The HTML of the page is not
\* among the sources: a button can be pressed whenever the script lets its
\* handler run.

\* The name and the room the users type into the join form.
JoinForm == [username |-> "alice", roomId |-> "R1"]

\* A packet from a page to the server.
Packet(ev, data) == [event |-> ev, data |-> data]

\* endCall(): the end-call it sends, none when currentCall has no target.
EndCallPackets(c) ==
  IF currentCall[c].targetSocketId # NoTarget
  THEN << Packet("end-call", [targetSocketId |-> currentCall[c].targetSocketId]) >>
  ELSE << >>

\* endCall() that tells the target and hides the call interface and the
\* incoming call dialog, and keeps currentCall.
endCall_KeepsTarget(c) ==
  /\ toServer' = [toServer EXCEPT ![c] = @ \o EndCallPackets(c)]
  /\ callInterface' = [callInterface EXCEPT ![c] = FALSE]
  /\ incomingCallModal' = [incomingCallModal EXCEPT ![c] = FALSE]
  /\ UNCHANGED currentCall

\* endCall(): tells the target, resets currentCall, hides the call interface
\* and the incoming call dialog.
endCall(c) ==
  /\ toServer' = [toServer EXCEPT ![c] = @ \o EndCallPackets(c)]
  /\ currentCall' = [currentCall EXCEPT ![c] = NoCall]
  /\ callInterface' = [callInterface EXCEPT ![c] = FALSE]
  /\ incomingCallModal' = [incomingCallModal EXCEPT ![c] = FALSE]

\* rejectCall(): sends reject-call with the target, hides the incoming call
\* dialog and resets currentCall; the call interface is left as it is.
rejectCall(c) ==
  /\ toServer' = [toServer EXCEPT ![c] =
                    Append(@, Packet("reject-call",
                                     [callerSocketId |-> currentCall[c].targetSocketId]))]
  /\ currentCall' = [currentCall EXCEPT ![c] = NoCall]
  /\ incomingCallModal' = [incomingCallModal EXCEPT ![c] = FALSE]
  /\ UNCHANGED callInterface

\* The history of the calls the user of c took down: the call with the
\* current target, if there is one.  A call is over in the history when a
\* new call between the two pages starts.
HangsUp(c) ==
  hungUp' = [hungUp EXCEPT ![c] = @ \cup ({currentCall[c].targetSocketId} \ {NoTarget})]

\* A page acts between two handlers of the server.
PageOpen(c) == Idle /\ c \in connected /\ screen[c] # "left"

\* What no page changes: the state of the server.
ServerUnchanged ==
  UNCHANGED <<connected, closed, activeUsers, rooms, calls, last, out, prevUsers,
              prevCalls, history, handled>>

\* handleJoinRoom(): the join button, with a name and a room in the form.
handleJoinRoom(c) ==
  /\ PageOpen(c)
  /\ screen[c] = "join"
  /\ toServer' = [toServer EXCEPT ![c] = Append(@, Packet("join-room", JoinForm))]
  /\ screen' = [screen EXCEPT ![c] = "asked"]
  /\ UNCHANGED <<toClient, roomUsers, currentCall, incomingCallModal, callInterface,
                 acts, hungUp, leftInCall>>
  /\ ServerUnchanged

\* initiateCall(): a call button of the users list.  With the microphone
\* granted the page stores the target, shows the call interface and sends
\* call-user; without it, it calls endCall().
initiateCall(c, targetSocketId, granted) ==
  /\ PageOpen(c)
  /\ screen[c] = "chat"
  /\ acts < MaxActs
  /\ \E u \in roomUsers[c] : u.socketId = targetSocketId
  /\ acts' = acts + 1
  /\ IF granted
     THEN /\ currentCall' = [currentCall EXCEPT ![c] =
                               [targetSocketId |-> targetSocketId, isIncoming |-> FALSE]]
          /\ callInterface' = [callInterface EXCEPT ![c] = TRUE]
          /\ toServer' = [toServer EXCEPT ![c] =
                            Append(@, Packet("call-user",
                                             [targetSocketId |-> targetSocketId,
                                              callType |-> "audio"]))]
          /\ hungUp' = [x \in Conns |->
                        IF x = c THEN hungUp[x] \ {targetSocketId}
                        ELSE IF x = targetSocketId THEN hungUp[x] \ {c}
                        ELSE hungUp[x]]
          /\ UNCHANGED incomingCallModal
     ELSE /\ endCall(c)
          /\ HangsUp(c)
  /\ UNCHANGED <<toClient, screen, roomUsers, leftInCall>>
  /\ ServerUnchanged

\* The accept button of the incoming call dialog.  With the microphone
\* granted the page shows the call interface, sends accept-call with the
\* target and hides the dialog; without it, it calls rejectCall().
acceptCall(c, granted) ==
  /\ PageOpen(c)
  /\ incomingCallModal[c]
  /\ acts < MaxActs
  /\ acts' = acts + 1
  /\ IF granted
     THEN /\ callInterface' = [callInterface EXCEPT ![c] = TRUE]
          /\ toServer' = [toServer EXCEPT ![c] =
                            Append(@, Packet("accept-call",
                                             [callerSocketId |-> currentCall[c].targetSocketId]))]
          /\ incomingCallModal' = [incomingCallModal EXCEPT ![c] = FALSE]
          /\ UNCHANGED <<currentCall, hungUp>>
     ELSE /\ rejectCall(c)
          /\ HangsUp(c)
  /\ UNCHANGED <<toClient, screen, roomUsers, leftInCall>>
  /\ ServerUnchanged

\* The reject button of the incoming call dialog: rejectCall().
rejectClick(c) ==
  /\ PageOpen(c)
  /\ incomingCallModal[c]
  /\ acts < MaxActs
  /\ acts' = acts + 1
  /\ rejectCall(c)
  /\ HangsUp(c)
  /\ UNCHANGED <<toClient, screen, roomUsers, leftInCall>>
  /\ ServerUnchanged

\* The end button of the call interface, or a failure of the peer connection
\* of a call (onconnectionstatechange, createOffer, the webrtc-offer and
\* webrtc-answer handlers): endCall().
endClick(c) ==
  /\ PageOpen(c)
  /\ callInterface[c] \/ currentCall[c].targetSocketId # NoTarget
  /\ acts < MaxActs
  /\ acts' = acts + 1
  /\ endCall(c)
  /\ HangsUp(c)
  /\ UNCHANGED <<toClient, screen, roomUsers, leftInCall>>
  /\ ServerUnchanged

\* What handleLeaveRoom() sends when it closed the socket before endCall().
LeavePackets_DisconnectFirst(c) ==
  << Packet("disconnect", NoData) >> \o EndCallPackets(c)

\* What handleLeaveRoom() sends: the end-call of endCall() when there is a
\* target or the call interface is shown, then the close of the socket.
LeavePackets(c) ==
  (IF currentCall[c].targetSocketId # NoTarget \/ callInterface[c]
   THEN EndCallPackets(c) ELSE << >>) \o << Packet("disconnect", NoData) >>

\* handleLeaveRoom(): the leave button.  The socket is closed, what the
\* server still sends to it is lost, and the page goes on with a new socket.
handleLeaveRoom(c) ==
  /\ PageOpen(c)
  /\ screen[c] = "chat"
  /\ acts < MaxActs
  /\ acts' = acts + 1
  /\ toServer' = [toServer EXCEPT ![c] = @ \o LeavePackets(c)]
  /\ leftInCall' = [leftInCall EXCEPT ![c] = currentCall[c].targetSocketId]
  /\ HangsUp(c)
  /\ screen' = [screen EXCEPT ![c] = "left"]
  /\ toClient' = [toClient EXCEPT ![c] = << >>]
  /\ roomUsers' = [roomUsers EXCEPT ![c] = {}]
  /\ currentCall' = [currentCall EXCEPT ![c] = NoCall]
  /\ callInterface' = [callInterface EXCEPT ![c] = FALSE]
  /\ incomingCallModal' = [incomingCallModal EXCEPT ![c] = FALSE]
  /\ ServerUnchanged

\* The page takes the oldest packet the server sent to it.
Receives(c, ev) ==
  /\ PageOpen(c)
  /\ toClient[c] # << >>
  /\ Head(toClient[c]).event = ev
  /\ toClient' = [toClient EXCEPT ![c] = Tail(@)]
  /\ UNCHANGED <<acts, leftInCall>>
  /\ ServerUnchanged

\* socket.on('joined-room'): shows the chat screen and asks for the users.
OnJoinedRoom(c) ==
  /\ Receives(c, "joined-room")
  /\ screen' = [screen EXCEPT ![c] = "chat"]
  /\ toServer' = [toServer EXCEPT ![c] = Append(@, Packet("get-room-users", NoData))]
  /\ UNCHANGED <<roomUsers, currentCall, incomingCallModal, callInterface, hungUp>>

\* socket.on('room-users-list'): updateUsersList(users) stores the list.
OnRoomUsersList(c) ==
  /\ Receives(c, "room-users-list")
  /\ roomUsers' = [roomUsers EXCEPT ![c] = Head(toClient[c]).data.users]
  /\ UNCHANGED <<toServer, screen, currentCall, incomingCallModal, callInterface, hungUp>>

\* socket.on('incoming-call'): stores the caller as the target and shows the
\* incoming call dialog.
OnIncomingCall(c) ==
  /\ Receives(c, "incoming-call")
  /\ currentCall' = [currentCall EXCEPT ![c] =
                       [targetSocketId |-> Head(toClient[c]).data.callerSocketId,
                        isIncoming |-> TRUE]]
  /\ incomingCallModal' = [incomingCallModal EXCEPT ![c] = TRUE]
  /\ hungUp' = [hungUp EXCEPT ![c] = @ \ {Head(toClient[c]).data.callerSocketId}]
  /\ UNCHANGED <<toServer, screen, roomUsers, callInterface>>

\* socket.on('call-rejected'): an alert, then endCall().
OnCallRejected(c) ==
  /\ Receives(c, "call-rejected")
  /\ endCall(c)
  /\ UNCHANGED <<screen, roomUsers, hungUp>>

\* socket.on('call-ended'): an alert, then endCall().
OnCallEnded(c) ==
  /\ Receives(c, "call-ended")
  /\ endCall(c)
  /\ UNCHANGED <<screen, roomUsers, hungUp>>

\* The packets that change nothing the model follows: a line in the chat or
\* in the call status, or no handler at all (call-error).
DisplayOnly ==
  {"user-joined", "user-left", "join-error", "error", "call-accepted", "call-error",
   "receive-message", "receive-image"}

OnDisplayOnly(c) ==
  /\ \E ev \in DisplayOnly : Receives(c, ev)
  /\ UNCHANGED <<toServer, screen, roomUsers, currentCall, incomingCallModal,
                 callInterface, hungUp>>

\* The server takes the oldest packet of a socket and runs its handler.
ServerTakes(c) ==
  /\ toServer[c] # << >>
  /\ LET m == Head(toServer[c]) IN
       \/ m.event = "join-room" /\ JoinRoom(c, m.data.username, m.data.roomId)
       \/ m.event = "get-room-users" /\ GetRoomUsers(c)
       \/ m.event = "call-user" /\ CallUser(c, m.data.targetSocketId, m.data.callType)
       \/ m.event = "accept-call" /\ AcceptCall(c, m.data.callerSocketId)
       \/ m.event = "reject-call" /\ RejectCall(c, m.data.callerSocketId)
       \/ m.event = "end-call" /\ EndCall(c, m.data.targetSocketId)
       \/ m.event = "disconnect" /\ Disconnect(c)

\* The emissions o that went to socket c, in the order of the emit calls.
PacketsTo(o, c) ==
  LET ForC(m) == c \in m.to IN SelectSeq(o, ForC)

\* The handler returns: the packet it handled is off the queue of its socket
\* and its emissions are on the queues of the sockets they went to, unless
\* the page of the socket has closed it.  The server keeps no call state,
\* and the calls in progress are not followed here.
ReturnWire ==
  /\ ~Idle
  /\ last' = IdleEvent
  /\ out' = << >>
  /\ prevUsers' = activeUsers
  /\ calls' = {}
  /\ prevCalls' = {}
  /\ toServer' = IF last.event = "connection"
                  THEN toServer
                  ELSE [toServer EXCEPT ![last.from] = Tail(@)]
  /\ toClient' = [c \in Conns |->
                    IF screen[c] = "left" THEN << >>
                    ELSE toClient[c] \o PacketsTo(out, c)]
  /\ handled' = IF last.event = "connection"
                 THEN handled
                 ELSE [handled EXCEPT ![last.from] =
                         [event |-> last.event, data |-> last.data,
                          registered |-> prevUsers[last.from] # NoUser,
                          to |-> UNION {out[i].to : i \in {k \in 1..Len(out) :
                                                            out[k].event = "call-ended"}}]]
  /\ UNCHANGED <<connected, closed, activeUsers, rooms, history>>
  /\ UNCHANGED <<screen, roomUsers, currentCall, incomingCallModal, callInterface,
                 acts, hungUp, leftInCall>>

\* What the users do once they are in the room.
Clicks ==
  \/ \E c \in Conns : endClick(c)
  \/ \E c \in Conns : rejectClick(c)
  \/ \E c \in Conns, granted \in BOOLEAN : acceptCall(c, granted)
  \/ \E c \in Conns, t \in Conns, granted \in BOOLEAN : initiateCall(c, t, granted)
  \/ \E c \in Conns : handleLeaveRoom(c)

\* What the pages do with the packets they receive once they are in the room.
PageHandlers ==
  \/ \E c \in Conns : OnRoomUsersList(c)
  \/ \E c \in Conns : OnIncomingCall(c)
  \/ \E c \in Conns : OnCallRejected(c)
  \/ \E c \in Conns : OnCallEnded(c)
  \/ \E c \in Conns : OnDisplayOnly(c)

\* What the server does.
ServerSteps ==
  \/ ReturnWire
  \/ \E c \in Conns : ServerTakes(c)

\* The pages arrive: every page connects, joins and stores the lists it is
\* sent, and no call button is pressed.
NextArrive ==
  \/ ServerSteps
  \/ \E c \in Conns : Connect(c)
  \/ \E c \in Conns : handleJoinRoom(c)
  \/ \E c \in Conns : OnJoinedRoom(c)
  \/ \E c \in Conns : OnRoomUsersList(c)
  \/ \E c \in Conns : OnDisplayOnly(c)

SpecArrive == Init /\ [][NextArrive]_vars

\* The list the join of the last page was answered with: everyone in the room.
Everyone == {[socketId |-> c, username |-> JoinForm.username] : c \in Conns}

\* The pages have arrived one after the other, s1 first and s3 last, and
\* every packet has been handled: what SpecArrive reaches when every page
\* joins after the page before it has stored its list.  The pages that were
\* in the room store the list of the last join, the last page the answer to
\* its own get-room-users.
Joined ==
  /\ connected = Conns
  /\ closed = {}
  /\ activeUsers = [c \in Conns |-> JoinForm]
  /\ rooms = [c \in Conns |-> {JoinForm.roomId}]
  /\ calls = {}
  /\ last = IdleEvent
  /\ out = << >>
  /\ prevUsers = activeUsers
  /\ prevCalls = {}
  /\ answers = [c \in Conns |-> NoAnswer]
  /\ sent = 0
  /\ inbox = [c \in Conns |-> << >>]
  /\ seen = [c \in Conns |-> NoList]
  /\ toServer = [c \in Conns |-> << >>]
  /\ toClient = [c \in Conns |-> << >>]
  /\ screen = [c \in Conns |-> "chat"]
  /\ roomUsers = [c \in Conns |->
                    IF c = "s3" THEN {u \in Everyone : u.socketId # c} ELSE Everyone]
  /\ currentCall = [c \in Conns |-> NoCall]
  /\ incomingCallModal = [c \in Conns |-> FALSE]
  /\ callInterface = [c \in Conns |-> FALSE]
  /\ acts = 0
  /\ hungUp = [c \in Conns |-> {}]
  /\ leftInCall = [c \in Conns |-> NoTarget]
  /\ handled = [c \in Conns |->
                  [event |-> "get-room-users", data |-> NoData,
                   registered |-> TRUE, to |-> {}]]

\* The pages in the room and the server together, from the state where the
\* pages have arrived.
NextPages == Clicks \/ PageHandlers \/ ServerSteps

SpecPages == Joined /\ [][NextPages]_vars

\* The event loops of the pages and of the server handle every packet that
\* waits; the users press a button when they like, or never.
SpecPagesFair == SpecPages /\ WF_vars(PageHandlers) /\ WF_vars(ServerSteps)

\* ------------------------------------------------------------------ observations

HasSession(c) == activeUsers[c] # NoUser

\* The connections whose current Session is in room r.
MembersOf(r) == {c \in Conns : HasSession(c) /\ activeUsers[c].roomId = r}

\* The emissions of the last handler that carry event ev.
Emitted(ev) == {i \in 1..Len(out) : out[i].event = ev}

\* The emissions of event ev that connection c received.
Received(c, ev) == {i \in Emitted(ev) : c \in out[i].to}

\* The connections that received some emission of event ev.
Receivers(ev) == UNION {out[i].to : i \in Emitted(ev)}

\* The sender of the last event had a Session when its handler started.
SenderRegistered == last.from \in Conns /\ prevUsers[last.from] # NoUser

\* ------------------------------------------------------------------ claims

\* C1: room isolation.  A receive-message caused by a sender whose Session
\* is in room R is delivered to no connection whose current Session has a
\* different roomId, and to no connection without a Session.
C1_RoomIsolation ==
  (last.event = "send-message" /\ SenderRegistered) =>
    \A c \in Receivers("receive-message") :
      HasSession(c) /\ activeUsers[c].roomId = activeUsers[last.from].roomId

\* t is s without its leading and trailing whitespace: s is whitespace, t,
\* whitespace, and t neither starts nor ends with whitespace.
IsStripped(s, t) ==
  /\ t # <<>> => ~IsSpace(t[1]) /\ ~IsSpace(t[Len(t)])
  /\ \E i \in 0..Len(s) :
       /\ i + Len(t) <= Len(s)
       /\ \A k \in 1..Len(s) :
            IF k > i /\ k <= i + Len(t) THEN s[k] = t[k - i] ELSE IsSpace(s[k])

\* The text is present and holds a character that is not whitespace.
NotBlank(m) == m # MissingText /\ \E k \in 1..Len(m) : ~IsSpace(m[k])

\* C2: a send-message of a registered connection {n, R} whose text does not
\* trim to empty: every connection whose Session is in R, the sender
\* included, receives exactly one receive-message, with sender n and the
\* text without its surrounding whitespace.
C2_MessageReachesRoom ==
  (last.event = "send-message" /\ SenderRegistered /\ NotBlank(last.data.message)) =>
    \A c \in MembersOf(activeUsers[last.from].roomId) :
      /\ Cardinality(Received(c, "receive-message")) = 1
      /\ \A i \in Received(c, "receive-message") :
           /\ out[i].data.username = activeUsers[last.from].username
           /\ IsStripped(last.data.message, out[i].data.message)

\* C2's case: a padded text sent into a room of two members with different
\* display names, received by both.
C2_Witness ==
  /\ last.event = "send-message" /\ SenderRegistered
  /\ last.data.message = <<" ", "h", " ", "i", " ">>
  /\ \E c \in MembersOf(activeUsers[last.from].roomId) :
       /\ c # last.from
       /\ activeUsers[c].username # activeUsers[last.from].username
       /\ Received(c, "receive-message") # {}
  /\ Received(last.from, "receive-message") # {}

\* The room of the room-users-list a join-room or disconnect broadcasts.
ListRoom ==
  IF last.event = "join-room" THEN last.data.roomId ELSE prevUsers[last.from].roomId

\* C3: every room-users-list that join-room or disconnect broadcasts for
\* room R lists exactly the connections whose Session is in R when it is
\* emitted, with their registered names: the one that just joined is in it,
\* the one that just disconnected is not.
C3_ListIsMembership ==
  last.event \in {"join-room", "disconnect"} =>
    \A i \in Emitted("room-users-list") :
      /\ out[i].data.users =
           {[socketId |-> c, username |-> activeUsers[c].username] : c \in MembersOf(ListRoom)}
      /\ last.event = "join-room" =>
           \E u \in out[i].data.users : u.socketId = last.from
      /\ last.event = "disconnect" =>
           \A u \in out[i].data.users : u.socketId # last.from

\* C3's case: a disconnect from a room where a member stays while another
\* connection has its Session elsewhere.
C3_Witness ==
  /\ last.event = "disconnect"
  /\ Emitted("room-users-list") # {}
  /\ MembersOf(ListRoom) # {}
  /\ \E c \in Conns : HasSession(c) /\ c \notin MembersOf(ListRoom)

\* C3's case on join: the joiner enters a room that has a member already.
C3_WitnessJoin ==
  /\ last.event = "join-room"
  /\ Emitted("room-users-list") # {}
  /\ Cardinality(MembersOf(ListRoom)) >= 2

\* Something was delivered to some connection by the last handler.
Delivered == \E i \in 1..Len(out) : out[i].to # {}

\* C4: when A disconnects while a call between A and B is ringing or
\* accepted, B receives call-ended naming A, and the room-users-list
\* broadcast afterwards does not contain A.
C4_DisconnectEndsCall ==
  last.event = "disconnect" =>
    \A b \in Conns :
      InCall(prevCalls, last.from, b) =>
        /\ \E i \in Received(b, "call-ended") : out[i].data.fromSocketId = last.from
        /\ \A i \in Emitted("room-users-list") :
             \A u \in out[i].data.users : u.socketId # last.from

\* The call-user of the last handler named a target the caller may not
\* call: one without a Session, or one whose Session is in another room.
CallTargetNotFound ==
  /\ last.event = "call-user" /\ SenderRegistered
  /\ \/ Unregistered(prevUsers, last.data.targetSocketId)
     \/ prevUsers[last.data.targetSocketId].roomId # prevUsers[last.from].roomId

CallTargetFound ==
  /\ last.event = "call-user" /\ SenderRegistered
  /\ last.data.targetSocketId # last.from
  /\ ~Unregistered(prevUsers, last.data.targetSocketId)
  /\ prevUsers[last.data.targetSocketId].roomId = prevUsers[last.from].roomId

\* C6: a call-user from a registered caller naming another connection of
\* its room delivers exactly one incoming-call, to that target and to no
\* other connection, with the caller's id, its registered name and the
\* call type as sent.
C6_IncomingCallToTargetOnly ==
  CallTargetFound =>
    /\ Cardinality(Received(last.data.targetSocketId, "incoming-call")) = 1
    /\ Receivers("incoming-call") = {last.data.targetSocketId}
    /\ \A i \in Emitted("incoming-call") :
         out[i].data = [callerSocketId |-> last.from,
                        callerUsername |-> prevUsers[last.from].username,
                        callType |-> last.data.callType]

\* C7: call-accepted reaches X naming callee Y only if a call from X to Y
\* is ringing, and an accept-call without such a call delivers nothing.
C7_AcceptedOnlyIfRinging ==
  /\ \A i \in Emitted("call-accepted") :
       \A x \in out[i].to : Ringing(prevCalls, x, out[i].data.answererSocketId)
  /\ (last.event = "accept-call"
        /\ ~Ringing(prevCalls, last.data.callerSocketId, last.from)) => ~Delivered

\* C8: call-rejected reaches X naming callee Y only if a call from X to Y
\* is ringing, and a reject-call without such a call delivers nothing.
C8_RejectedOnlyIfRinging ==
  /\ \A i \in Emitted("call-rejected") :
       \A x \in out[i].to : Ringing(prevCalls, x, out[i].data.answererSocketId)
  /\ (last.event = "reject-call"
        /\ ~Ringing(prevCalls, last.data.callerSocketId, last.from)) => ~Delivered

\* C9: call-ended reaches a target only if a call, ringing or accepted,
\* exists between the sender of end-call and that target, and an end-call
\* naming any other connection delivers nothing.
C9_EndedOnlyIfInCall ==
  /\ \A i \in Emitted("call-ended") :
       \A x \in out[i].to : InCall(prevCalls, last.from, x)
  /\ (last.event = "end-call"
        /\ ~InCall(prevCalls, last.from, last.data.targetSocketId)) => ~Delivered

\* C10: when B has received incoming-call from A and both are registered,
\* an accept-call from B naming A delivers call-accepted to A and to no
\* other connection, with B's id and B's registered name.
C10_AcceptReachesCallerOnly ==
  (/\ last.event = "accept-call" /\ SenderRegistered
   /\ ~Unregistered(prevUsers, last.data.callerSocketId)
   /\ Ringing(prevCalls, last.data.callerSocketId, last.from)) =>
    /\ Receivers("call-accepted") = {last.data.callerSocketId}
    /\ \A i \in 1..Len(out) :
         /\ out[i].event = "call-accepted"
         /\ out[i].data = [answererSocketId |-> last.from,
                           answererUsername |-> prevUsers[last.from].username]

\* The events of the session-negotiation relay.
RelayEvents == {"webrtc-offer", "webrtc-answer", "webrtc-ice-candidate"}

\* C11: an offer, answer or ice-candidate is forwarded under the same event
\* name with the payload that was sent and with fromSocketId the socket id
\* of the actual sender, and it is delivered to the named target and to no
\* other connection.
C11_RelayToTargetOnly ==
  last.event \in RelayEvents =>
    \A i \in 1..Len(out) :
      /\ out[i].event = last.event
      /\ out[i].data = [fromSocketId |-> last.from, payload |-> last.data.payload]
      /\ out[i].to \subseteq {last.data.targetSocketId}

\* C12: an offer, answer or ice-candidate is delivered only to a connection
\* that has a Session: nothing is delivered when the target is connected
\* without having joined a room, or is no connection.
C12_RelayOnlyToRegistered ==
  last.event \in RelayEvents =>
    \A i \in 1..Len(out) : \A c \in out[i].to : HasSession(c)

\* The events the server delivers for a call.
SignallingEvents ==
  {"incoming-call", "call-accepted", "call-rejected", "call-ended"} \cup RelayEvents

\* C13: call signalling stays inside one room.  Every incoming-call,
\* call-accepted, call-rejected, call-ended, offer, answer and ice-candidate
\* is delivered only from a connection with a Session to a connection with
\* a Session of the same roomId.
C13_SignallingInsideRoom ==
  \A i \in 1..Len(out) :
    out[i].event \in SignallingEvents =>
      \A c \in out[i].to :
        /\ HasSession(last.from) /\ HasSession(c)
        /\ activeUsers[c].roomId = activeUsers[last.from].roomId

\* The client events that need a Session.
SessionEvents ==
  {"send-message", "send-image", "get-room-users",
   "call-user", "accept-call", "reject-call", "end-call"} \cup RelayEvents

\* C14: a client event other than join-room from a connection without a
\* Session: an error is emitted to the sender, nothing is delivered to
\* another connection, and activeUsers is unchanged.
C14_UnregisteredSenderGetsError ==
  (last.event \in SessionEvents /\ ~SenderRegistered) =>
    /\ \E i \in 1..Len(out) : out[i].event = "error" /\ out[i].to = {last.from}
    /\ \A i \in 1..Len(out) : out[i].to \subseteq {last.from}
    /\ activeUsers = prevUsers

\* The last event is a join-room whose username or roomId is empty or missing.
InvalidJoin(e) ==
  /\ e.event = "join-room"
  /\ e.data.username \in {"", Missing} \/ e.data.roomId \in {"", Missing}

\* C15: a join-room with an empty or missing username or roomId emits
\* join-error to its sender and nothing else (no joined-room, user-joined
\* or room-users-list), and changes neither activeUsers, so a Session the
\* sender had is kept, nor the rooms any socket has joined.
C15_InvalidJoinMutatesNothing ==
  [][ InvalidJoin(last') =>
        /\ Len(out') = 1
        /\ out'[1].event = "join-error" /\ out'[1].to = {last'.from}
        /\ activeUsers' = activeUsers
        /\ rooms' = rooms ]_vars

\* C15's case: join-room without a username from a connection that has a
\* Session and shares its room with another connection.
C15_Witness ==
  /\ InvalidJoin(last) /\ last.data.username = Missing /\ last.data.roomId = "R2"
  /\ HasSession(last.from) /\ activeUsers[last.from].roomId = "R1"
  /\ \E c \in MembersOf("R1") : c # last.from
  /\ Emitted("join-error") # {}

\* The text is missing, or every character of it is a blank.
BlankText(m) == m = MissingText \/ \A k \in 1..Len(m) : m[k] = " "

\* C16: a send-message of a registered connection whose text is missing or
\* trims to empty emits nothing, neither receive-message nor an error to
\* the sender, and leaves activeUsers unchanged.
C16_BlankMessageIsDropped ==
  (last.event = "send-message" /\ SenderRegistered /\ BlankText(last.data.message)) =>
    /\ out = <<>>
    /\ activeUsers = prevUsers

\* C16's case: a text of one blank, sent into a room that has another member.
C16_Witness ==
  /\ last.event = "send-message" /\ SenderRegistered
  /\ last.data.message = <<" ">>
  /\ \E c \in MembersOf(activeUsers[last.from].roomId) : c # last.from /\ c \in connected
  /\ out = <<>>

\* C17: a send-image of a registered connection {n, R}.  With a url, every
\* connection whose Session is in R, the sender included, receives exactly
\* one receive-image with sender n and the url as sent, and no connection
\* whose Session is in another room receives it; without a url, or with an
\* empty one, nothing is emitted.
C17_ImageReachesRoomOnly ==
  (last.event = "send-image" /\ SenderRegistered) =>
    IF last.data.imageUrl \in {"", Missing}
    THEN out = <<>>
    ELSE /\ \A c \in MembersOf(activeUsers[last.from].roomId) :
              /\ Cardinality(Received(c, "receive-image")) = 1
              /\ \A i \in Received(c, "receive-image") :
                   out[i].data = [username |-> activeUsers[last.from].username,
                                  imageUrl |-> last.data.imageUrl]
         /\ \A c \in Receivers("receive-image") :
              HasSession(c) /\ activeUsers[c].roomId = activeUsers[last.from].roomId

\* The last event is a join-room with a username and a roomId.
ValidJoin(e) ==
  /\ e.event = "join-room"
  /\ e.data.username \notin {"", Missing} /\ e.data.roomId \notin {"", Missing}

\* C18: a successful join-room of connection c into room R emits, in this
\* order, joined-room to c alone with the {username, roomId} it sent,
\* user-joined to every other member of R and not to c, and room-users-list
\* to every member of R, c included; the list already holds c under the
\* name it joined with.
C18_JoinEmissionsInOrder ==
  ValidJoin(last) =>
    /\ Len(out) = 3
    /\ out[1].event = "joined-room" /\ out[1].to = {last.from}
    /\ out[1].data = [username |-> last.data.username, roomId |-> last.data.roomId]
    /\ out[2].event = "user-joined"
    /\ last.from \notin out[2].to
    /\ MembersOf(last.data.roomId) \ {last.from} \subseteq out[2].to
    /\ out[3].event = "room-users-list"
    /\ MembersOf(last.data.roomId) \subseteq out[3].to
    /\ last.from \in out[3].to
    /\ [socketId |-> last.from, username |-> last.data.username] \in out[3].data.users

\* C18's case: a join into a room that has a member already, under a name
\* other than the one of the previous Session of the joiner.
C18_Witness ==
  /\ ValidJoin(last)
  /\ prevUsers[last.from] # NoUser
  /\ prevUsers[last.from].username # last.data.username
  /\ \E c \in MembersOf(last.data.roomId) : c # last.from /\ c \in out[2].to
  /\ Len(out) = 3

C20_RegistryFollowsJoinAndDisconnect ==
  /\ ValidJoin(last) =>
       activeUsers[last.from] = [username |-> last.data.username,
                                 roomId |-> last.data.roomId]
  /\ last.event = "disconnect" => activeUsers[last.from] = NoUser
  /\ \A c \in Conns :
       activeUsers[c] # prevUsers[c] =>
         c = last.from /\ (ValidJoin(last) \/ last.event = "disconnect")

\* C20's case: a connection with a Session joins again under another name
\* and into another room, and activeUsers holds the new Session.
C20_Witness ==
  /\ ValidJoin(last)
  /\ prevUsers[last.from] # NoUser
  /\ prevUsers[last.from].username # last.data.username
  /\ prevUsers[last.from].roomId # last.data.roomId
  /\ activeUsers[last.from] # prevUsers[last.from]

\* C20's other case: a connection with a Session has disconnected.
C20_WitnessDisconnect ==
  /\ last.event = "disconnect" /\ SenderRegistered
  /\ activeUsers[last.from] = NoUser

\* The last event is a join-room, with a username and a roomId, of a
\* connection whose Session was in another room.
Rejoin(e) ==
  /\ ValidJoin(e)
  /\ prevUsers[e.from] # NoUser
  /\ prevUsers[e.from].roomId # e.data.roomId

\* C21: a join-room for room R2 by a connection whose Session is in room R1,
\* R1 other than R2, overwrites the Session with the new {username, R2}, and
\* no user-left is emitted: no member of R1 receives one.
C21_RejoinWithoutLeaveNotice ==
  Rejoin(last) =>
    /\ activeUsers[last.from] = [username |-> last.data.username,
                                 roomId |-> last.data.roomId]
    /\ \A c \in Conns : Received(c, "user-left") = {}

\* C21's case: the connection leaves behind a member of R1, which receives
\* nothing from the join.
C21_Witness ==
  /\ Rejoin(last)
  /\ \E c \in MembersOf(prevUsers[last.from].roomId) :
       c \in connected /\ \A i \in 1..Len(out) : c \notin out[i].to

\* C22: a get-room-users of a connection that sent one before, with no
\* join-room and no disconnect handled since, is answered with the same set
\* of members as the one before.
C22_QueryIsIdempotent ==
  (last.event = "get-room-users" /\ answers[last.from].asked) =>
    Answer(out) = answers[last.from].lists

\* C22's case: the second get-room-users of a connection that shares its
\* room, while another connection is open without a Session.
C22_Witness ==
  /\ last.event = "get-room-users" /\ answers[last.from].asked
  /\ \E l \in Answer(out) : l # {}
  /\ \E c \in connected : ~HasSession(c)

EarlierMembers ==
  {a \in Conns \ {last.from} :
     prevUsers[a] # NoUser /\ prevUsers[a].roomId = last.data.roomId}

\* C24: when A has joined room R1 and B then joins R1, B receives a
\* user-joined that carries A's name.
C24_JoinerHearsOfEarlierMember ==
  ValidJoin(last) =>
    \A a \in EarlierMembers :
      \E i \in Received(last.from, "user-joined") :
        out[i].data.username = prevUsers[a].username

\* C24 as amended: when A has joined room R1 and B then joins R1, A receives
\* a user-joined that carries B's name, and B receives no user-joined.
C24_EarlierMemberHearsOfJoiner ==
  ValidJoin(last) =>
    /\ Received(last.from, "user-joined") = {}
    /\ \A a \in EarlierMembers :
         \E i \in Received(a, "user-joined") :
           out[i].data.username = last.data.username

\* C24's case: B joins under a name other than A's, and A receives the
\* user-joined.
C24_Witness ==
  /\ ValidJoin(last)
  /\ \E a \in EarlierMembers :
       /\ prevUsers[a].username # last.data.username
       /\ Received(a, "user-joined") # {}

\* C25: while a call of caller a to callee b rings, that is before b's
\* accept-call, no webrtc-offer of a is delivered to b and no webrtc-answer
\* of b is delivered to a.
C25_NegotiationAfterAccept ==
  \A a \in Conns : \A b \in Conns :
    Ringing(prevCalls, a, b) =>
      /\ ~(last.event = "webrtc-offer" /\ last.from = a /\ b \in Receivers("webrtc-offer"))
      /\ ~(last.event = "webrtc-answer" /\ last.from = b /\ a \in Receivers("webrtc-answer"))

\* C26: a get-room-users of a registered connection c emits one
\* room-users-list, to c alone, that holds the {socketId, username} of
\* exactly the connections whose Session is in c's room at that moment,
\* c itself left out; the handler changes neither activeUsers nor the rooms
\* nor the connections.
C26_QueryListsOthersOfRoom ==
  [][ (last'.event = "get-room-users" /\ activeUsers[last'.from] # NoUser) =>
        /\ Len(out') = 1
        /\ out'[1].event = "room-users-list"
        /\ out'[1].to = {last'.from}
        /\ out'[1].data.users =
             {[socketId |-> s, username |-> activeUsers[s].username] :
                s \in MembersOf(activeUsers[last'.from].roomId) \ {last'.from}}
        /\ UNCHANGED <<activeUsers, rooms, connected, closed>> ]_vars

\* C26's case: the connection shares its room with another one, while a
\* third one is registered in another room.
C26_Witness ==
  /\ last.event = "get-room-users" /\ SenderRegistered
  /\ \E i \in Emitted("room-users-list") : out[i].data.users # {}
  /\ \E c \in Conns : HasSession(c) /\ activeUsers[c].roomId # activeUsers[last.from].roomId

\* C27: every entry of activeUsers belongs to an open connection: the
\* disconnect of a connection removes its entry, whatever its room and
\* whatever call it was in, and no later event gives a closed connection
\* an entry again.
C27_RegistryOnlyHoldsConnected ==
  \A c \in Conns :
    /\ HasSession(c) => c \in connected
    /\ c \in closed => ~HasSession(c)

\* C27's case: a registered connection with a call in progress has
\* disconnected, after another connection had closed.
C27_Witness ==
  /\ last.event = "disconnect" /\ SenderRegistered
  /\ \E k \in prevCalls : k.caller = last.from \/ k.callee = last.from
  /\ \E c \in closed : c # last.from
  /\ last.from \in closed

\* C28: the disconnect of a connection that has no entry in activeUsers
\* leaves activeUsers as it is and emits nothing.
C28_DisconnectWithoutSession ==
  (last.event = "disconnect" /\ ~SenderRegistered) =>
    /\ out = <<>>
    /\ activeUsers = prevUsers

\* C28's case: a connection without a Session disconnects while two other
\* connections share a room.
C28_Witness ==
  /\ last.event = "disconnect" /\ ~SenderRegistered
  /\ \E a \in connected : \E b \in connected :
       a # b /\ HasSession(a) /\ HasSession(b)
       /\ activeUsers[a].roomId = activeUsers[b].roomId
  /\ out = <<>>

\* C29: every connection is subscribed to exactly one broadcast room, the
\* roomId of its Session, and to none without a Session; so a message
\* broadcast to room R goes to exactly the connections whose Session is in R.
C29_OneSubscriptionPerSession ==
  /\ \A c \in Conns :
       rooms[c] = IF HasSession(c) THEN {activeUsers[c].roomId} ELSE {}
  /\ \A i \in Emitted("receive-message") :
       out[i].to = MembersOf(activeUsers[last.from].roomId)

\* C30: when a handler has returned, the room-users-list a registered
\* connection c received last holds, c itself aside, exactly the connections
\* whose Session is in c's room, under their names: the members of a room
\* one of them left by joining another room have received a new list.
C30_LastListIsCurrent ==
  Idle =>
    \A c \in Conns :
      (HasSession(c) /\ seen[c].known) =>
        {u \in seen[c].users : u.socketId # c} =
          {[socketId |-> s, username |-> activeUsers[s].username] :
             s \in MembersOf(activeUsers[c].roomId) \ {c}}

\* C31: only join-room and disconnect write activeUsers.  The handler of any
\* other event leaves every entry as it was, and the join-room or disconnect
\* of connection c leaves the entries of all connections but c as they were.
C31_OnlyJoinAndDisconnectWrite ==
  IF last.event \in {"join-room", "disconnect"}
  THEN \A c \in Conns \ {last.from} : activeUsers[c] = prevUsers[c]
  ELSE activeUsers = prevUsers

\* C31's case: a connection disconnects from a room in which another one
\* keeps its Session.
C31_Witness ==
  /\ last.event = "disconnect" /\ SenderRegistered
  /\ \E c \in MembersOf(prevUsers[last.from].roomId) : c # last.from

\* C31's other case: a registered connection ends a call with a registered
\* target, which receives call-ended.
C31_WitnessEndCall ==
  /\ last.event = "end-call" /\ SenderRegistered
  /\ \E c \in Receivers("call-ended") : HasSession(c)

\* C32: a registered connection that sends call-user with its own socket id
\* as the target receives no incoming-call.
C32_NoCallToSelf ==
  (last.event = "call-user" /\ SenderRegistered
     /\ last.data.targetSocketId = last.from) =>
    Received(last.from, "incoming-call") = {}

\* C32's case: the handler finds the target registered in the caller's
\* room, since it is the caller, and emits incoming-call to the room named
\* by the caller's id.
C32_Witness ==
  /\ last.event = "call-user" /\ SenderRegistered
  /\ last.data.targetSocketId = last.from
  /\ Emitted("incoming-call") # {}
  /\ Emitted("call-error") = {}

\* script.js updateUsersList: the client stores the list it received
\* (roomUsers = users) and shows users.length + 1 as the number of users.
UserCount(c) == Cardinality(seen[c].users) + 1

\* C36: after any room-users-list a client received, the list it stores
\* does not hold its own connection, and the user count it shows, the length
\* of the list plus one, is the number of Sessions in its room.
C36_StoredListOmitsSelf ==
  Idle =>
    \A c \in connected :
      (seen[c].known /\ HasSession(c)) =>
        /\ \A u \in seen[c].users : u.socketId # c
        /\ UserCount(c) = Cardinality(MembersOf(activeUsers[c].roomId))

\* ------------------------------------------------------------------ claims on the pages

\* Page c handles the oldest packet the server sent to it, and it is ev.
Handled(c, ev) ==
  /\ screen[c] # "left" /\ screen'[c] # "left"
  /\ toClient[c] # << >>
  /\ Head(toClient[c]).event = ev
  /\ toClient'[c] = Tail(toClient[c])

\* C35: while currentCall.targetSocketId of a page is a peer P, an
\* incoming-call the page handles does not replace the target: it is still P
\* after the handler.
C35_IncomingCallKeepsTarget ==
  [][\A c \in Conns :
       (Handled(c, "incoming-call") /\ currentCall[c].targetSocketId \in Conns \ {c})
         => currentCall'[c].targetSocketId = currentCall[c].targetSocketId]_vars

\* C33: a page whose user ended or rejected the call with a peer is not sent
\* a call-ended of that peer for that call afterwards, unless the user of the
\* peer ended it too: the endCall() the peer runs when it is told does not
\* come back as a call-ended.
C33_NoCallEndedAfterOwnHangUp ==
  \A c \in Conns :
    (last.event = "end-call" /\ Received(c, "call-ended") # {} /\ screen[c] # "left")
      => ~(last.from \in hungUp[c] /\ c \notin hungUp[last.from])

\* C37: when a page leaves the room with the leave button while its
\* currentCall.targetSocketId is a peer P, the server handles its end-call
\* before its disconnect: when the disconnect handler runs, the packet of
\* the page handled last is the end-call for P, handled while the page had a
\* Session, and P, if it is still connected, was sent the call-ended then,
\* before the user-left and the room-users-list of the disconnect.
C37_EndCallBeforeDisconnect ==
  \A c \in Conns :
    (last.event = "disconnect" /\ last.from = c /\ leftInCall[c] \in Conns \ {c})
      => /\ handled[c].event = "end-call"
         /\ handled[c].data = [targetSocketId |-> leftInCall[c]]
         /\ handled[c].registered
         /\ leftInCall[c] \in connected => leftInCall[c] \in handled[c].to

\* A page left while in a call with a peer that is still in the room: the
\* disconnect handler tells the peer, which was sent the call-ended before.
C37_Witness ==
  \E c \in Conns :
    /\ last.event = "disconnect" /\ last.from = c
    /\ leftInCall[c] \in connected \ {c}
    /\ leftInCall[c] \in handled[c].to
    /\ Received(leftInCall[c], "user-left") # {}
    /\ Received(leftInCall[c], "room-users-list") # {}

\* No packet is on its way and no handler runs.
Quiet ==
  /\ Idle
  /\ \A c \in Conns : toServer[c] = << >> /\ toClient[c] = << >>

\* Every call a user ended or rejected is over on both pages: neither has
\* the other as its target.
HungUpCallsOver ==
  \A c \in Conns : \A p \in hungUp[c] :
    currentCall[c].targetSocketId # p /\ currentCall[p].targetSocketId # c

C34_WitnessEcho ==
  /\ Quiet
  /\ \E c \in Conns : \E p \in Conns \ {c} :
       /\ p \in hungUp[c] /\ c \notin hungUp[p]
       /\ handled[p].event = "end-call"
       /\ handled[p].data = [targetSocketId |-> c]

====
